---- MODULE Spec2Model ----
(***************************************************************************)
(* Model of sphinxcontrib.traceables.graph: GraphProcessor.process_doctree *)
(* (start-tag resolution, relationship-spec parsing, graph construction,   *)
(* rendering, placeholder replacement) and GraphInput (the walker and the  *)
(* direction canonicalization).                                            *)
(*                                                                         *)
(* Strings are sequences of one-character strings, so that split, strip    *)
(* and int are computed as the code computes them.  An optional value is   *)
(* None (the empty tuple) or Some(v) (the one-element tuple <<v>>).        *)
(***************************************************************************)
EXTENDS Integers, Sequences, FiniteSets, TLC

\* ------------------------------------------------------------------ bounds

\* At most this many declared relationships in the entity graph.
MaxEdges == 3

\* ------------------------------------------------------- values and options

None == <<>>

Some(v) == <<v>>

\* Python truthiness of an optional string: None and "" are falsy.
TruthyString(input) == input # None /\ input[1] # <<>>

\* Python truthiness of an optional integer: None and 0 are falsy.
TruthyInt(max_length) == max_length # None /\ max_length[1] # 0

\* -------------------------------------------- storage (external registry)

\* Tags of the traceables the storage knows, in tag order.
Entities == <<"A", "B", "C">>

TraceableSet == {Entities[i] : i \in 1..Len(Entities)}

DependsOn == <<"d">>

RequiredBy == <<"r">>

\* storage.relationship_directions, in the dictionary's iteration order.
relationship_directions == << <<RequiredBy, 1>>, <<DependsOn, -1>> >>

RelationshipNames == {relationship_directions[i][1] : i \in 1..Len(relationship_directions)}

is_valid_relationship(relationship) == relationship \in RelationshipNames

get_relationship_direction(relationship) ==
  LET i == CHOOSE i \in 1..Len(relationship_directions) :
             relationship_directions[i][1] = relationship
  IN relationship_directions[i][2]

get_relationship_opposite(relationship) ==
  IF relationship = DependsOn THEN RequiredBy ELSE DependsOn

\* storage.get_traceable_by_tag raises KeyError for a tag outside the storage.
HasTraceable(tag) == tag \in TraceableSet

\* Every relationship one traceable can declare: <<traceable, relationship, relative>>.
AllEdges == TraceableSet \X RelationshipNames \X TraceableSet

\* The entity graphs: every set of at most n declared relationships.
RECURSIVE GraphsUpTo(_)
GraphsUpTo(n) ==
  IF n = 0 THEN {{}}
  ELSE LET smaller == GraphsUpTo(n - 1)
       IN smaller \cup {g \cup {e} : g \in smaller, e \in AllEdges}

Graphs == GraphsUpTo(MaxEdges)

\* ---------------------------------------------------------------- strings

HasChar(s, c) == \E i \in 1..Len(s) : s[i] = c

FirstIndex(s, c) == CHOOSE i \in 1..Len(s) : s[i] = c /\ \A j \in 1..(i-1) : s[j] # c

\* str.split(sep): the parts between the separators, at least one part.
RECURSIVE Split(_, _)
Split(s, sep) ==
  IF HasChar(s, sep)
  THEN LET i == FirstIndex(s, sep)
       IN <<SubSeq(s, 1, i-1)>> \o Split(SubSeq(s, i+1, Len(s)), sep)
  ELSE <<s>>

\* str.split(sep, 1): cut at the first separator only.
SplitOnce(s, sep) ==
  IF HasChar(s, sep)
  THEN LET i == FirstIndex(s, sep)
       IN <<SubSeq(s, 1, i-1), SubSeq(s, i+1, Len(s))>>
  ELSE <<s>>

\* str.strip(): drop the leading and trailing blanks.
RECURSIVE Strip(_)
Strip(s) ==
  IF s = <<>> THEN s
  ELSE IF Head(s) = " " THEN Strip(Tail(s))
  ELSE IF s[Len(s)] = " " THEN Strip(SubSeq(s, 1, Len(s)-1))
  ELSE s

Digits == <<"0", "1", "2", "3", "4", "5", "6", "7", "8", "9">>

IsDigit(c) == \E i \in 1..Len(Digits) : Digits[i] = c

DigitValue(c) == (CHOOSE i \in 1..Len(Digits) : Digits[i] = c) - 1

RECURSIVE Decimal(_)
Decimal(s) == IF s = <<>> THEN 0 ELSE 10 * Decimal(SubSeq(s, 1, Len(s)-1)) + DigitValue(s[Len(s)])

AllDigits(s) == s # <<>> /\ \A i \in 1..Len(s) : IsDigit(s[i])

\* int(text): blanks around are dropped, one sign is accepted, then digits;
\* anything else raises.  None stands for the exception.
ParseInt(text) ==
  LET s == Strip(text)
  IN IF s # <<>> /\ Head(s) = "-" /\ AllDigits(Tail(s)) THEN Some(0 - Decimal(Tail(s)))
     ELSE IF s # <<>> /\ Head(s) = "+" /\ AllDigits(Tail(s)) THEN Some(Decimal(Tail(s)))
     ELSE IF AllDigits(s) THEN Some(Decimal(s))
     ELSE None

\* ---------------------------------------------------- parse_relationships

NoException == "none"

\* One part of the comma-separated input: the exception it raises, or the
\* (relationship, max_length) pair it appends.
ParsePart(part) ==
  LET pair == SplitOnce(part, ":")
      relationship == IF Len(pair) = 2 THEN Strip(pair[1]) ELSE Strip(part)
      number == IF Len(pair) = 2 THEN ParseInt(Strip(pair[2])) ELSE None
  IN IF Len(pair) = 2 /\ number = None
       THEN [raised |-> "ValueError", pairs |-> <<>>]
     ELSE IF ~ is_valid_relationship(relationship)
       THEN [raised |-> "Error", pairs |-> <<>>]
     ELSE [raised |-> NoException, pairs |-> << <<relationship, number>> >>]

\* The loop over the parts stops at the first part that raises.
RECURSIVE ParseParts(_)
ParseParts(parts) ==
  IF parts = <<>> THEN [raised |-> NoException, pairs |-> <<>>]
  ELSE LET first == ParsePart(Head(parts))
       IN IF first.raised # NoException THEN first
          ELSE LET rest == ParseParts(Tail(parts))
               IN IF rest.raised # NoException THEN rest
                  ELSE [raised |-> NoException, pairs |-> first.pairs \o rest.pairs]

parse_relationships(input) ==
  IF TruthyString(input)
  THEN ParseParts(Split(input[1], ","))
  ELSE [raised |-> NoException,
        pairs |-> [i \in 1..Len(relationship_directions) |->
                     <<relationship_directions[i][1], None>>]]

\* ------------------------------------------------------------- the request

\* Tag lists as Traceable.split_tags_string hands them over; "M" and "N" are
\* tags no traceable carries.
TagLists == { <<"A">>, <<"A", "B">>, <<"M">>, <<"M", "A">>, <<"M", "N">> }

\* The relationships option of a directive: absent, or its text.
Inputs ==
  { None,
    Some(<<>>),
    Some(<<"d">>),
    Some(<<"r">>),
    Some(<<"d", ",", "r">>),
    Some(<<"r", ",", " ", "d">>),
    Some(<<"d", ":", "0">>),
    Some(<<"d", ":", "1">>),
    Some(<<"r", ":", " ", "1">>),
    Some(<<"d", ":", "-", "1">>),
    Some(<<"d", ":", "1", ",", "r">>),
    Some(<<"r", ",", "d", ":", "1">>),
    Some(<<"d", ":", "2", ",", "r">>),
    Some(<<"r", ",", "d", ":", "2">>),
    Some(<<"x">>),
    Some(<<"d", ":", "z">>),
    Some(<<"d", ":">>) }

\* A traceable_graph placeholder node as TraceableGraphDirective.run builds it.
traceable_graph(tags, input) ==
  [kind |-> "traceable_graph", tags |-> tags, relationships |-> input]

Placeholders == {traceable_graph(tags, input) : tags \in TagLists, input \in Inputs}

IsPermutation(s, t) ==
  /\ Len(s) = Len(t)
  /\ \E f \in [1..Len(s) -> 1..Len(s)] :
       /\ \A i, j \in 1..Len(s) : f[i] = f[j] => i = j
       /\ \A i \in 1..Len(s) : t[i] = s[f[i]]

\* Variant of StartTraceables: the loop ends at the first tag not found.
RECURSIVE StartTraceables_StopAtMissing(_)
StartTraceables_StopAtMissing(tags) ==
  IF tags = <<>> \/ ~ HasTraceable(Head(tags)) THEN <<>>
  ELSE <<Head(tags)>> \o StartTraceables_StopAtMissing(Tail(tags))

\* get_start_traceables: the tags the storage resolves, in order.
StartTraceables(tags) == SelectSeq(tags, HasTraceable)

UnresolvedTags(tags) == SelectSeq(tags, LAMBDA tag : ~ HasTraceable(tag))

\* The second placeholder of a two-diagram document: the same start tags (all
\* of them resolvable) with a reordered relationship list (each pair of lists
\* taken once, the one naming depends-on first in front), or one placeholder
\* after a first that ends at once (no valid tag, or a relationship text the
\* parser rejects).
Follows(p, q) ==
  LET pp == parse_relationships(p.relationships)
      pq == parse_relationships(q.relationships)
  IN \/ /\ p.tags = q.tags
        /\ UnresolvedTags(p.tags) = <<>>
        /\ pp.raised = NoException /\ pq.raised = NoException
        /\ pp.pairs # pq.pairs
        /\ pp.pairs[1][1] = DependsOn
        /\ IsPermutation(pp.pairs, pq.pairs)
     \/ /\ StartTraceables(p.tags) = <<>> \/ pp.raised # NoException
        /\ q = traceable_graph(<<"A">>, Some(<<"d">>))

PlaceholderPairs == {<<p, q>> : p \in Placeholders, q \in Placeholders}

Documents ==
  {<<p>> : p \in Placeholders} \cup {d \in PlaceholderPairs : Follows(d[1], d[2])}

\* ------------------------------------------------------------------- state

VARIABLES
  storage,                    \* the declared relationships of the traceables
  request,                    \* the document's placeholders as parsed
  doctree,                    \* the document's nodes, replaced in place
  pc,                         \* position within process_doctree
  idx,                        \* index of the graph node the loop is at
  raised,                     \* exception that left process_doctree
  warnings,                   \* node_warning calls, in order
  relationship_length_pairs,  \* GraphInput.relationship_length_pairs
  traceables,                 \* GraphInput._traceables
  relationships,              \* GraphInput._relationships
  pending,                    \* start traceables construct_graph_input has yet to walk
  stack,                      \* the active _walk_traceable calls, innermost last
  recorded,                   \* history: each relationship_info added, with depth and limit
  walks,                      \* history: per graph node, the traceables walks started from
  steps                       \* history: the steps process_doctree has taken

vars == <<storage, request, doctree, pc, idx, raised, warnings,
          relationship_length_pairs, traceables, relationships, pending, stack,
          recorded, walks, steps>>

\* Traceable.relationships.get(relationship, ()): the relatives, in order
\* (here the order of their tags).
Relatives(traceable, relationship) ==
  SelectSeq(Entities, LAMBDA e : <<traceable, relationship, e>> \in storage)

\* ------------------------------------------------------------- GraphInput

\* Variant of SkipsRelationship: a missing max_length counts as 0.
SkipsRelationship_NoneIsZero(max_length, length) ==
  length >= (IF max_length = None THEN 0 ELSE max_length[1])

\* The depth test of _walk_traceable: this relationship is passed over.
SkipsRelationship(max_length, length) ==
  TruthyInt(max_length) /\ length >= max_length[1]

\* Variant of WalkItems: the loop over the pairs ends after the first pair.
WalkItems_FirstPairOnly(traceable, length, pairs) ==
  IF pairs = <<>> \/ SkipsRelationship(Head(pairs)[2], length) THEN <<>>
  ELSE LET relatives == Relatives(traceable, Head(pairs)[1])
       IN [j \in 1..Len(relatives) |->
             [info |-> <<traceable, relatives[j], Head(pairs)[1],
                         get_relationship_direction(Head(pairs)[1])>>,
              max_length |-> Head(pairs)[2]]]

\* What one _walk_traceable call iterates over, in order: for every pair it
\* does not pass over, the relationship_info of every relative (kept with the
\* pair's max_length for the history).
RECURSIVE WalkItems(_, _, _)
WalkItems(traceable, length, pairs) ==
  IF pairs = <<>> THEN <<>>
  ELSE LET relationship == Head(pairs)[1]
           max_length == Head(pairs)[2]
           direction == get_relationship_direction(relationship)
           relatives == Relatives(traceable, relationship)
           here == IF SkipsRelationship(max_length, length) THEN <<>>
                   ELSE [j \in 1..Len(relatives) |->
                           [info |-> <<traceable, relatives[j], relationship, direction>>,
                            max_length |-> max_length]]
       IN here \o WalkItems(traceable, length, Tail(pairs))

\* A call _walk_traceable(traceable, length) about to run its loops.
WalkCall(traceable, length) ==
  [traceable |-> traceable, length |-> length,
   todo |-> WalkItems(traceable, length, relationship_length_pairs)]

\* Variant of AddTraceable: the traceable is added inside the loop over its
\* relatives, so one that declares no relationship is left out.
AddTraceable_OnlyWithRelatives(set, traceable) ==
  IF \E e \in storage : e[1] = traceable THEN set \cup {traceable} ELSE set

\* The first statement of _walk_traceable.
AddTraceable(set, traceable) == set \cup {traceable}

\* Variant of NotRecorded: the test is on the relative, not on the relationship.
NotRecorded_ByTraceable(relationship_info, set) == relationship_info[2] \notin traceables

\* relationship_info not in self._relationships
NotRecorded(relationship_info, set) == relationship_info \notin set

\* One relationship of add_traceable_walk's loop: a backward one is replaced
\* by its opposite, forward.
Forward(relationship_info) ==
  IF relationship_info[4] = -1
  THEN <<relationship_info[2], relationship_info[1],
         get_relationship_opposite(relationship_info[3]), 1>>
  ELSE relationship_info

\* Variant of MakeForward: the backward relationship is not removed.
MakeForward_KeepsBackward(set) ==
  set \cup {Forward(relationship_info) : relationship_info \in set}

MakeForward(set) == {Forward(relationship_info) : relationship_info \in set}

\* --------------------------------------------------------------- rendering

TagRank(tag) == CHOOSE i \in 1..Len(Entities) : Entities[i] = tag

\* Order of the relationship names as strings: "d" < "r".
NameRank(relationship) == IF relationship = DependsOn THEN 1 ELSE 2

LessTuple(a, b) ==
  \E i \in 1..Len(a) : a[i] < b[i] /\ \A j \in 1..(i-1) : a[j] = b[j]

InfoKey(info) == <<TagRank(info[1]), TagRank(info[2]), NameRank(info[3]), info[4]>>

\* GraphInput.traceables: sorted(self._traceables), traceables order by tag.
SortedTraceables(set) == SelectSeq(Entities, LAMBDA t : t \in set)

\* GraphInput.relationships: sorted(self._relationships), tuples in order.
RECURSIVE SortedRelationships(_)
SortedRelationships(set) ==
  IF set = {} THEN <<>>
  ELSE LET least == CHOOSE x \in set :
                      \A y \in set \ {x} : LessTuple(InfoKey(x), InfoKey(y))
       IN <<least>> \o SortedRelationships(set \ {least})

\* One dot.edge call of generate_dot.
DotEdge(info) ==
  [src |-> IF info[4] >= 0 THEN info[1] ELSE info[2],
   dst |-> IF info[4] >= 0 THEN info[2] ELSE info[1],
   taillabel |-> info[3],
   headlabel |-> get_relationship_opposite(info[3])]

\* generate_dot: the node statements, then the edge statements.
generate_dot(ts, rs) ==
  LET sorted == SortedRelationships(rs)
  IN [nodes |-> SortedTraceables(ts),
      edges |-> [i \in 1..Len(sorted) |-> DotEdge(sorted[i])]]

graphviz(code) == [kind |-> "graphviz", code |-> code]

system_message == [kind |-> "system_message", level |-> 2, type |-> "ERROR"]

\* ------------------------------------------------------------------ actions

Node == doctree[idx]

AtGraphNode == pc = "process_doctree" /\ idx <= Len(doctree)

TagWarnings(tags) ==
  LET missing == UnresolvedTags(tags)
  IN [i \in 1..Len(missing) |-> [node |-> idx, message |-> "no traceable with tag", tag |-> missing[i]]]

NoValidTagsWarning == [node |-> idx, message |-> "no valid tags for graph", tag |-> ""]

GraphInputVars == <<relationship_length_pairs, traceables, relationships, pending, stack, recorded>>

Init ==
  /\ storage \in Graphs
  /\ request \in Documents
  /\ doctree = request
  /\ pc = "process_doctree"
  /\ idx = 1
  /\ raised = NoException
  /\ warnings = <<>>
  /\ relationship_length_pairs = <<>>
  /\ traceables = {}
  /\ relationships = {}
  /\ pending = <<>>
  /\ stack = <<>>
  /\ recorded = <<>>
  /\ walks = [i \in 1..Len(request) |-> <<>>]
  /\ steps = 0

\* process_doctree, no start tag resolves: warn, put the error message in
\* the placeholder's place, go on with the next graph node.
SkipGraph ==
  /\ AtGraphNode
  /\ StartTraceables(Node.tags) = <<>>
  /\ warnings' = warnings \o TagWarnings(Node.tags) \o <<NoValidTagsWarning>>
  /\ doctree' = [doctree EXCEPT ![idx] = system_message]
  /\ idx' = idx + 1
  /\ steps' = steps + 1
  /\ UNCHANGED <<storage, request, pc, raised, GraphInputVars, walks>>

\* process_doctree, parse_relationships raises: nothing catches it.
ParseRaises ==
  /\ AtGraphNode
  /\ StartTraceables(Node.tags) # <<>>
  /\ parse_relationships(Node.relationships).raised # NoException
  /\ warnings' = warnings \o TagWarnings(Node.tags)
  /\ raised' = parse_relationships(Node.relationships).raised
  /\ pc' = "raised"
  /\ steps' = steps + 1
  /\ UNCHANGED <<storage, request, doctree, idx, GraphInputVars, walks>>

\* process_doctree up to the GraphInput constructor.
ConstructGraphInput ==
  /\ AtGraphNode
  /\ StartTraceables(Node.tags) # <<>>
  /\ parse_relationships(Node.relationships).raised = NoException
  /\ warnings' = warnings \o TagWarnings(Node.tags)
  /\ relationship_length_pairs' = parse_relationships(Node.relationships).pairs
  /\ traceables' = {}
  /\ relationships' = {}
  /\ pending' = StartTraceables(Node.tags)
  /\ stack' = <<>>
  /\ recorded' = <<>>
  /\ pc' = "construct_graph_input"
  /\ steps' = steps + 1
  /\ UNCHANGED <<storage, request, doctree, idx, raised, walks>>

\* construct_graph_input calls add_traceable_walk, which enters
\* _walk_traceable(traceable, 0).
AddTraceableWalk ==
  /\ pc = "construct_graph_input"
  /\ stack = <<>>
  /\ pending # <<>>
  /\ traceables' = AddTraceable(traceables, Head(pending))
  /\ stack' = <<WalkCall(Head(pending), 0)>>
  /\ pending' = Tail(pending)
  /\ walks' = [walks EXCEPT ![idx] = Append(@, Head(pending))]
  /\ steps' = steps + 1
  /\ UNCHANGED <<storage, request, doctree, pc, idx, raised, warnings,
                 relationship_length_pairs, relationships, recorded>>

\* The innermost call looks at its next relative: a relationship_info not
\* yet recorded is recorded and the relative is walked one level deeper.
WalkRelative ==
  /\ stack # <<>>
  /\ stack[Len(stack)].todo # <<>>
  /\ LET top == stack[Len(stack)]
         item == Head(top.todo)
         rest == [stack EXCEPT ![Len(stack)].todo = Tail(top.todo)]
     IN IF NotRecorded(item.info, relationships)
        THEN /\ relationships' = relationships \cup {item.info}
             /\ traceables' = AddTraceable(traceables, item.info[2])
             /\ stack' = Append(rest, WalkCall(item.info[2], top.length + 1))
             /\ recorded' = Append(recorded, [info |-> item.info, length |-> top.length,
                                              max_length |-> item.max_length])
        ELSE /\ stack' = rest
             /\ UNCHANGED <<relationships, traceables, recorded>>
  /\ steps' = steps + 1
  /\ UNCHANGED <<storage, request, doctree, pc, idx, raised, warnings,
                 relationship_length_pairs, pending, walks>>

\* A recursive call has run out of relatives and returns to its caller.
WalkReturn ==
  /\ Len(stack) > 1
  /\ stack[Len(stack)].todo = <<>>
  /\ stack' = SubSeq(stack, 1, Len(stack) - 1)
  /\ steps' = steps + 1
  /\ UNCHANGED <<storage, request, doctree, pc, idx, raised, warnings,
                 relationship_length_pairs, traceables, relationships, pending,
                 recorded, walks>>

\* The outermost call has returned: add_traceable_walk makes every recorded
\* relationship forward and returns.
FinishWalk ==
  /\ Len(stack) = 1
  /\ stack[1].todo = <<>>
  /\ relationships' = MakeForward(relationships)
  /\ stack' = <<>>
  /\ steps' = steps + 1
  /\ UNCHANGED <<storage, request, doctree, pc, idx, raised, warnings,
                 relationship_length_pairs, traceables, pending, recorded, walks>>

\* Every start traceable is walked: render and replace the placeholder.
RenderGraph ==
  /\ pc = "construct_graph_input"
  /\ stack = <<>>
  /\ pending = <<>>
  /\ doctree' = [doctree EXCEPT ![idx] = graphviz(generate_dot(traceables, relationships))]
  /\ idx' = idx + 1
  /\ pc' = "process_doctree"
  /\ steps' = steps + 1
  /\ UNCHANGED <<storage, request, raised, warnings, GraphInputVars, walks>>

\* The loop over the graph nodes ends and process_doctree returns.
Return ==
  /\ pc = "process_doctree"
  /\ idx > Len(doctree)
  /\ pc' = "returned"
  /\ steps' = steps + 1
  /\ UNCHANGED <<storage, request, doctree, idx, raised, warnings, GraphInputVars, walks>>

Next ==
  \/ SkipGraph
  \/ ParseRaises
  \/ ConstructGraphInput
  \/ AddTraceableWalk
  \/ WalkRelative
  \/ WalkReturn
  \/ FinishWalk
  \/ RenderGraph
  \/ Return

Spec == Init /\ [][Next]_vars


\* ------------------------------------------------------------- properties

Finished == pc \in {"returned", "raised"}

\* add_traceable_walk has returned and the next call has not begun.
BetweenWalks == pc = "construct_graph_input" /\ stack = <<>> /\ walks[idx] # <<>>

Rendered(i) == doctree[i].kind = "graphviz"

\* RenderGraph has just replaced graph node i (no later step touches it).
JustRendered(i) == Rendered(i) /\ pc = "process_doctree" /\ i = idx - 1

Count(seq, x) == Cardinality({k \in 1..Len(seq) : seq[k] = x})

Range(seq) == {seq[k] : k \in 1..Len(seq)}

\* The tags of a list that name a traceable, and those that do not.
Resolvable(tags) == SelectSeq(tags, LAMBDA tag : tag \in {"A", "B", "C"})

Unresolvable(tags) == SelectSeq(tags, LAMBDA tag : tag \notin {"A", "B", "C"})

\* The entities reachable from a set along declared relationships whose name
\* is among the given ones.
RECURSIVE ReachVia(_, _)
ReachVia(set, names) ==
  LET more == set \cup {e[3] : e \in {d \in storage : d[1] \in set /\ d[2] \in names}}
  IN IF more = set THEN set ELSE ReachVia(more, names)

\* The declared relationships named t that lie on a closed walk through s.
CycleEdges(s, t) ==
  {e \in storage : /\ e[2] = t
                   /\ e[1] \in ReachVia({s}, {t})
                   /\ s \in ReachVia({e[3]}, {t})}

\* The edge statement a declared relationship is rendered as.
ExpectedEdge(e) ==
  IF e[2] = RequiredBy
  THEN [src |-> e[1], dst |-> e[3], taillabel |-> RequiredBy, headlabel |-> DependsOn]
  ELSE [src |-> e[3], dst |-> e[1], taillabel |-> RequiredBy, headlabel |-> DependsOn]

ParsedPairs(i) == parse_relationships(request[i].relationships).pairs

NamedTypes(i) == {ParsedPairs(i)[k][1] : k \in 1..Len(ParsedPairs(i))}

Unlimited(i, t) == \E k \in 1..Len(ParsedPairs(i)) : ParsedPairs(i)[k] = <<t, None>>

NoNegativeLimit(i) ==
  \A k \in 1..Len(ParsedPairs(i)) :
    ParsedPairs(i)[k][2] = None \/ ParsedPairs(i)[k][2][1] >= 0

NoLimit(i) == \A k \in 1..Len(ParsedPairs(i)) : ParsedPairs(i)[k][2] = None

\* C1 (as claimed): every relationship recorded under a pair (type, k), k any
\* integer with 0 included, is recorded from a traceable walked at a depth
\* below k.
C1_DepthBound ==
  \A n \in 1..Len(recorded) :
    recorded[n].max_length # None => recorded[n].length < recorded[n].max_length[1]

\* C2: once add_traceable_walk has returned, every recorded relationship has
\* direction +1, and one recorded as (X, Y, t, -1) is there as
\* (Y, X, opposite(t), +1) and not as recorded.
C2_AllForward ==
  BetweenWalks =>
    /\ \A r \in relationships : r[4] = 1
    /\ \A n \in 1..Len(recorded) :
         LET info == recorded[n].info
         IN info[4] = -1 =>
              /\ info \notin relationships
              /\ <<info[2], info[1], IF info[3] = DependsOn THEN RequiredBy ELSE DependsOn, 1>>
                   \in relationships

C2_Witness ==
  /\ BetweenWalks
  /\ \E n \in 1..Len(recorded) : recorded[n].info[4] = -1 /\ recorded[n].info[1] # recorded[n].info[2]

\* C3 (as claimed): in every rendered graph, each relationship on a cycle
\* through a start traceable, of a type the relationship list names with or
\* without a depth limit, is an edge of the result exactly once.
C3_CycleEdgesOnce ==
  \A i \in 1..Len(request) :
    JustRendered(i) /\ NoNegativeLimit(i) =>
      \A s \in Range(Resolvable(request[i].tags)) : \A t \in NamedTypes(i) :
        \A e \in CycleEdges(s, t) : Count(doctree[i].code.edges, ExpectedEdge(e)) = 1

C3_EdgesOnceIfUnlimited ==
  \A i \in 1..Len(request) :
    JustRendered(i) =>
      \A s \in Range(Resolvable(request[i].tags)) : \A t \in NamedTypes(i) :
        \A e \in CycleEdges(s, t) :
          /\ Count(doctree[i].code.edges, ExpectedEdge(e)) <= 1
          /\ Unlimited(i, t) => Count(doctree[i].code.edges, ExpectedEdge(e)) = 1

\* A bound on the steps of process_doctree.  A walk records at most one
\* relationship_info per declared relationship; each recording starts a call,
\* and a call looks at no more relatives than there are declared
\* relationships before it returns.
WalkBound == 2 + Cardinality(storage) * (Cardinality(storage) + 2) + Cardinality(storage)

RECURSIVE NodesBound(_)
NodesBound(i) ==
  IF i > Len(request) THEN 0
  ELSE Len(request[i].tags) * (WalkBound + 1) + 2 + NodesBound(i + 1)

StepBound == 1 + NodesBound(1)

\* C3 (amended): process_doctree always ends (the number of its steps is
\* bounded by the size of the graph and of the request), and each
\* relationship on a cycle through a start traceable is an edge of the result
\* at most once, exactly once when the relationship list names its type
\* without a limit.
C3_TerminatesCycleSafe ==
  /\ steps <= StepBound
  /\ C3_EdgesOnceIfUnlimited

\* A rendered walk from A around the cycle A -> B -> C -> A.
C3_Witness ==
  /\ JustRendered(1)
  /\ Rendered(1)
  /\ request[1].tags = <<"A">>
  /\ Unlimited(1, RequiredBy)
  /\ storage = {<<"A", RequiredBy, "B">>, <<"B", RequiredBy, "C">>, <<"C", RequiredBy, "A">>}
  /\ Len(doctree[1].code.edges) = 3

\* C4 (as claimed): when process_doctree is over, every placeholder has been
\* replaced by a graph node or a diagnostic node.
C4_AllReplaced ==
  Finished => \A i \in 1..Len(doctree) : doctree[i].kind \in {"graphviz", "system_message"}

\* The graph node's start tags have been resolved.
Resolved(i) == i < idx \/ (i = idx /\ pc \in {"construct_graph_input", "raised"})

WarnedTags(i) ==
  LET about == SelectSeq(warnings, LAMBDA w : w.node = i /\ w.message = "no traceable with tag")
  IN [k \in 1..Len(about) |-> about[k].tag]

NoValidTagsCount(i) ==
  Len(SelectSeq(warnings, LAMBDA w : w.node = i /\ w.message = "no valid tags for graph"))

IsPrefix(s, t) == Len(s) <= Len(t) /\ s = SubSeq(t, 1, Len(s))

\* C5: each unresolvable start tag gives one warning and is dropped, walks
\* start from exactly the resolvable tags, in order; when no tag resolves
\* nothing is walked or rendered, the placeholder becomes one error message
\* and the loop goes on to the next graph node.
C5_StartTags ==
  \A i \in 1..Len(request) :
    IF Resolved(i)
    THEN /\ WarnedTags(i) = Unresolvable(request[i].tags)
         /\ IF Resolvable(request[i].tags) = <<>>
            THEN /\ doctree[i] = system_message
                 /\ NoValidTagsCount(i) = 1
                 /\ walks[i] = <<>>
                 /\ i < idx
            ELSE /\ doctree[i].kind # "system_message"
                 /\ NoValidTagsCount(i) = 0
                 /\ IsPrefix(walks[i], Resolvable(request[i].tags))
                 /\ Rendered(i) => walks[i] = Resolvable(request[i].tags)
    ELSE WarnedTags(i) = <<>> /\ NoValidTagsCount(i) = 0 /\ walks[i] = <<>>

C5_Witness ==
  /\ pc = "returned"
  /\ Len(request) = 2
  /\ request[1].tags = <<"M", "N">>
  /\ doctree[1] = system_message
  /\ Rendered(2)
  /\ Len(warnings) = 3

\* C6: with the relationships option absent or empty the parser gives every
\* known relationship with no limit, and the rendered entities are exactly
\* those reachable from the start traceables along any relationship.
C6_DefaultIsClosure ==
  /\ \A i \in 1..Len(request) :
       JustRendered(i) /\ request[i].relationships \in {None, Some(<<>>)} =>
         Range(doctree[i].code.nodes)
           = ReachVia(Range(Resolvable(request[i].tags)), {DependsOn, RequiredBy})
  /\ pc = "construct_graph_input" /\ request[idx].relationships \in {None, Some(<<>>)} =>
       /\ Len(relationship_length_pairs) = 2
       /\ Range(relationship_length_pairs) = {<<DependsOn, None>>, <<RequiredBy, None>>}

C6_Witness ==
  /\ JustRendered(1)
  /\ request[1].relationships = None
  /\ request[1].tags = <<"A">>
  /\ Len(doctree[1].code.nodes) = 3
  /\ \E e \in storage : e[2] = DependsOn
  /\ \E e \in storage : e[2] = RequiredBy

\* Two rendered graph nodes with the same start tags whose relationship
\* lists are reorderings of each other.
Reordered(i, j) ==
  /\ i < j
  /\ Rendered(i) /\ Rendered(j)
  /\ request[i].tags = request[j].tags
  /\ IsPermutation(ParsedPairs(i), ParsedPairs(j))

\* C7 (as claimed): reordering the relationship list, depth limits or not,
\* changes neither the entities nor the edges of the result.
C7_OrderIndependent ==
  \A i, j \in 1..Len(request) : Reordered(i, j) => doctree[i].code = doctree[j].code

\* C7 (amended): reordering a relationship list that carries no depth limit
\* changes neither the entities nor the edges of the result.
C7_OrderIndependentNoLimit ==
  \A i, j \in 1..Len(request) :
    Reordered(i, j) /\ NoLimit(i) => doctree[i].code = doctree[j].code

C7_Witness ==
  /\ Len(request) = 2
  /\ Reordered(1, 2)
  /\ NoLimit(1)
  /\ ParsedPairs(1) # ParsedPairs(2)
  /\ Len(doctree[2].code.edges) >= 2
  /\ \E e \in storage : e[2] = DependsOn
  /\ \E e \in storage : e[2] = RequiredBy

\* C8 (as claimed): what parse_relationships returns names known
\* relationships only, and every max_length in it is a non-negative integer.
C8_ParserOutput ==
  pc = "construct_graph_input" =>
    \A k \in 1..Len(relationship_length_pairs) :
      /\ relationship_length_pairs[k][1] \in {DependsOn, RequiredBy}
      /\ relationship_length_pairs[k][2] # None => relationship_length_pairs[k][2][1] >= 0

\* C9 (as claimed): over all the walks of one GraphInput no oriented
\* relationship (source, relative, type) is recorded and walked through twice.
C9_ExploredOnce ==
  \A m, n \in 1..Len(recorded) : m < n => recorded[m].info # recorded[n].info

\* C10: after any number of add_traceable_walk calls both ends of every
\* recorded relationship and every start traceable walked are among the
\* traceables, and every rendered edge joins two rendered nodes.
C10_EndpointsClosed ==
  /\ BetweenWalks =>
       /\ \A r \in relationships : r[1] \in traceables /\ r[2] \in traceables
       /\ Range(walks[idx]) \subseteq traceables
  /\ \A i \in 1..Len(request) :
       Rendered(i) =>
         \A k \in 1..Len(doctree[i].code.edges) :
           /\ doctree[i].code.edges[k].src \in Range(doctree[i].code.nodes)
           /\ doctree[i].code.edges[k].dst \in Range(doctree[i].code.nodes)

C10_Witness ==
  /\ BetweenWalks
  /\ Len(walks[idx]) = 2
  /\ Cardinality(traceables) = 3
  /\ \E n \in 1..Len(recorded) : recorded[n].info[4] = -1
  /\ \E r \in relationships : r[1] # r[2]

====
